---- MODULE Spec2Model ----
(***************************************************************************)
(* A model of Client.Request (src/client.go), the request dispatcher of    *)
(* the MessageBird REST client.                                            *)
(*                                                                         *)
(* Strings that the code only compares or copies are TLA+ strings.  Two    *)
(* kinds of text are taken apart by the code and are modelled as           *)
(* sequences:                                                              *)
(*   - a path / URL is a sequence of one-character strings, so that        *)
(*     strings.HasPrefix, url.Parse and URL.String work on characters;     *)
(*   - a JSON text (request or response body) is a sequence of lexemes,    *)
(*     so that json.Unmarshal's validity scan and its type-directed        *)
(*     decoding work on the text, not on a ready-made value.               *)
(***************************************************************************)
EXTENDS Integers, Sequences, FiniteSets, TLC

\* ------------------------------------------------------------------ bounds

\* Longest path suffix enumerated by the URL specification.
MaxPathLen == 3

\* Number of goroutines calling Request on the shared Client (SpecConc).
NumCalls == 2

\* Number of lexemes one Read of the response stream delivers.
ChunkLen == 6

\* ------------------------------------------------------- encoding/json text

NumLexemes == {"0", "9"}

NumOf(t) == IF t = "9" THEN 9 ELSE 0

NumLexeme(n) == IF n = 9 THEN "9" ELSE "0"

StrLexemes ==
    {"\"\"", "\"errors\"", "\"code\"", "\"description\"", "\"parameter\"",
     "\"is invalid\"", "\"originator\"", "\"payment\"", "\"amount\"",
     "\"prepaid\""}

\* The Go string a string lexeme denotes.
StrOf(t) ==
    CASE t = "\"\"" -> ""
      [] t = "\"errors\"" -> "errors"
      [] t = "\"code\"" -> "code"
      [] t = "\"description\"" -> "description"
      [] t = "\"parameter\"" -> "parameter"
      [] t = "\"is invalid\"" -> "is invalid"
      [] t = "\"originator\"" -> "originator"
      [] t = "\"payment\"" -> "payment"
      [] t = "\"amount\"" -> "amount"
      [] t = "\"prepaid\"" -> "prepaid"
      [] OTHER -> "?"

\* The lexeme json.Marshal writes for a Go string.
StrLexeme(s) == CHOOSE t \in StrLexemes : StrOf(t) = s

IsNum(t) == t \in NumLexemes
IsStr(t) == t \in StrLexemes
IsScalar(t) == t = "null" \/ IsNum(t) \/ IsStr(t)

\* The scanner: the index just after the JSON value that starts at b[i], or
\* 0 when the text is not a JSON value there (a syntax error, or the text
\* ends early).
RECURSIVE ScanValue(_, _), ScanMembers(_, _, _), ScanElements(_, _, _)
ScanValue(b, i) ==
    IF i > Len(b) THEN 0
    ELSE IF IsScalar(b[i]) THEN i + 1
    ELSE IF b[i] = "{" THEN ScanMembers(b, i + 1, TRUE)
    ELSE IF b[i] = "[" THEN ScanElements(b, i + 1, TRUE)
    ELSE 0

ScanMembers(b, i, first) ==
    IF i > Len(b) THEN 0
    ELSE IF first /\ b[i] = "}" THEN i + 1
    ELSE IF IsStr(b[i]) /\ i + 1 <= Len(b) /\ b[i + 1] = ":"
    THEN LET j == ScanValue(b, i + 2)
         IN  IF j = 0 \/ j > Len(b) THEN 0
             ELSE IF b[j] = "," THEN ScanMembers(b, j + 1, FALSE)
             ELSE IF b[j] = "}" THEN j + 1
             ELSE 0
    ELSE 0

ScanElements(b, i, first) ==
    IF i > Len(b) THEN 0
    ELSE IF first /\ b[i] = "]" THEN i + 1
    ELSE LET j == ScanValue(b, i)
         IN  IF j = 0 \/ j > Len(b) THEN 0
             ELSE IF b[j] = "," THEN ScanElements(b, j + 1, FALSE)
             ELSE IF b[j] = "]" THEN j + 1
             ELSE 0

\* json.Unmarshal begins with checkValid: the whole text must be exactly one
\* JSON value.  Nothing is written to the target when this fails.
checkValid(b) == ScanValue(b, 1) = Len(b) + 1

\* Errors of encoding/json, as the strings "" (none), "SyntaxError" and
\* "UnmarshalTypeError".  saveError keeps the first error only.
saveError(saved, e) == IF saved = "" THEN e ELSE saved

\* The index of the next member or element after the value ending at j.
AfterValue(b, j) == IF b[j] = "," THEN j + 1 ELSE j

\* literalStore into a field of Go kind "string" or "int": null leaves the
\* field alone, a literal of the field's kind is stored, anything else (a
\* literal of another kind, an object, an array) is an UnmarshalTypeError
\* that is saved while decoding goes on with the next member.
FieldErr(kind, t) ==
    IF t = "null" \/ (kind = "string" /\ IsStr(t)) \/ (kind = "int" /\ IsNum(t))
    THEN ""
    ELSE "UnmarshalTypeError"

StrField(t, cur) == IF IsStr(t) THEN StrOf(t) ELSE cur

IntField(t, cur) == IF IsNum(t) THEN NumOf(t) ELSE cur

\* The caller's result shape: a pointer to a struct with a string and an int
\* field (kind "ptr"), or no result wanted, a nil interface (kind "nil").
ZeroSink == [kind |-> "ptr", payment |-> "", amount |-> 0]

NilSink == [kind |-> "nil", payment |-> "", amount |-> 0]

\* decodeState.object on the struct v points to; i is at a key or at "}".
\* A member whose key names no field is skipped.
RECURSIVE DecodeSinkMembers(_, _, _, _)
DecodeSinkMembers(b, i, s, err) ==
    IF b[i] = "}" THEN [v |-> s, err |-> err]
    ELSE LET key == StrOf(b[i])
             t == b[i + 2]
             j == ScanValue(b, i + 2)
             s2 == IF key = "payment" THEN [s EXCEPT !.payment = StrField(t, @)]
                   ELSE IF key = "amount" THEN [s EXCEPT !.amount = IntField(t, @)]
                   ELSE s
             e2 == IF key = "payment" THEN saveError(err, FieldErr("string", t))
                   ELSE IF key = "amount" THEN saveError(err, FieldErr("int", t))
                   ELSE err
         IN  DecodeSinkMembers(b, AfterValue(b, j), s2, e2)

\* json.Unmarshal(responseBody, &v): the sink after the call and the error.
\* With a nil v the decoded value lands in Request's own local variable and
\* the caller sees nothing; every valid text is accepted.
UnmarshalSink(b, v) ==
    IF ~checkValid(b) THEN [v |-> v, err |-> "SyntaxError"]
    ELSE IF v.kind = "nil" THEN [v |-> v, err |-> ""]
    ELSE IF b[1] = "null" THEN [v |-> v, err |-> ""]
    ELSE IF b[1] = "{" THEN DecodeSinkMembers(b, 2, v, "")
    ELSE [v |-> v, err |-> "UnmarshalTypeError"]

\* One item of the error envelope.
ZeroError == [code |-> 0, description |-> "", parameter |-> ""]

RECURSIVE DecodeErrorMembers(_, _, _, _)
DecodeErrorMembers(b, i, e, err) ==
    IF b[i] = "}" THEN [val |-> e, err |-> err]
    ELSE LET key == StrOf(b[i])
             t == b[i + 2]
             j == ScanValue(b, i + 2)
             e2 == IF key = "code" THEN [e EXCEPT !.code = IntField(t, @)]
                   ELSE IF key = "description"
                   THEN [e EXCEPT !.description = StrField(t, @)]
                   ELSE IF key = "parameter"
                   THEN [e EXCEPT !.parameter = StrField(t, @)]
                   ELSE e
             r2 == IF key = "code" THEN saveError(err, FieldErr("int", t))
                   ELSE IF key \in {"description", "parameter"}
                   THEN saveError(err, FieldErr("string", t))
                   ELSE err
         IN  DecodeErrorMembers(b, AfterValue(b, j), e2, r2)

\* decodeState.array on the Errors slice; i is at an element or at "]".  The
\* slice grows by one for every element, whatever the element is.
RECURSIVE DecodeErrors(_, _, _, _)
DecodeErrors(b, i, items, err) ==
    IF b[i] = "]" THEN [val |-> items, err |-> err]
    ELSE LET j == ScanValue(b, i)
             r == IF b[i] = "{" THEN DecodeErrorMembers(b, i + 1, ZeroError, err)
                  ELSE IF b[i] = "null" THEN [val |-> ZeroError, err |-> err]
                  ELSE [val |-> ZeroError,
                        err |-> saveError(err, "UnmarshalTypeError")]
         IN  DecodeErrors(b, AfterValue(b, j), Append(items, r.val), r.err)

\* decodeState.object on ErrorResponse; i is at a key or at "}".
RECURSIVE DecodeErrorResponse(_, _, _, _)
DecodeErrorResponse(b, i, items, err) ==
    IF b[i] = "}" THEN [val |-> items, err |-> err]
    ELSE LET key == StrOf(b[i])
             t == b[i + 2]
             j == ScanValue(b, i + 2)
             r == IF key # "errors" THEN [val |-> items, err |-> err]
                  ELSE IF t = "[" THEN DecodeErrors(b, i + 3, <<>>, err)
                  ELSE IF t = "null" THEN [val |-> <<>>, err |-> err]
                  ELSE [val |-> items,
                        err |-> saveError(err, "UnmarshalTypeError")]
         IN  DecodeErrorResponse(b, AfterValue(b, j), r.val, r.err)

\* json.Unmarshal(responseBody, &errorResponse) on a zero ErrorResponse: the
\* items it ends with and the error.
UnmarshalErrorResponse(b) ==
    IF ~checkValid(b) THEN [val |-> <<>>, err |-> "SyntaxError"]
    ELSE IF b[1] = "null" THEN [val |-> <<>>, err |-> ""]
    ELSE IF b[1] = "{" THEN DecodeErrorResponse(b, 2, <<>>, "")
    ELSE [val |-> <<>>, err |-> "UnmarshalTypeError"]

\* The request payloads: none (nil), a struct, and a value json.Marshal
\* rejects (a channel).
NoData == [kind |-> "nil", payment |-> "", amount |-> 0]

StructData == [kind |-> "struct", payment |-> "prepaid", amount |-> 9]

ChanData == [kind |-> "chan", payment |-> "", amount |-> 0]

\* json.Marshal(data).
Marshal(data) ==
    IF data.kind = "struct"
    THEN [text |-> <<"{", "\"payment\"", ":", StrLexeme(data.payment), ",",
                     "\"amount\"", ":", NumLexeme(data.amount), "}">>,
          err |-> ""]
    ELSE [text |-> <<>>, err |-> "UnsupportedTypeError"]

\* ------------------------------------------------------------ net/url text

\* strings.HasPrefix on character sequences.
HasPrefix(s, p) == Len(s) >= Len(p) /\ SubSeq(s, 1, Len(p)) = p

HasSuffix(s, p) == Len(s) >= Len(p) /\ SubSeq(s, Len(s) - Len(p) + 1, Len(s)) = p

\* strings.Index for one character: the first index of c in s, or 0.
IndexOf(s, c) ==
    IF \E i \in 1..Len(s) : s[i] = c
    THEN CHOOSE i \in 1..Len(s) : s[i] = c /\ \A k \in 1..(i - 1) : s[k] # c
    ELSE 0

Count(s, c) == Cardinality({i \in 1..Len(s) : s[i] = c})

HttpPrefix == <<"h", "t", "t", "p", ":", "/", "/">>

HttpsPrefix == <<"h", "t", "t", "p", "s", ":", "/", "/">>

\* const Endpoint = "https://rest.messagebird.com"
Endpoint ==
    HttpsPrefix \o <<"r", "e", "s", "t", ".", "m", "e", "s", "s", "a", "g", "e",
                     "b", "i", "r", "d", ".", "c", "o", "m">>

\* The characters paths are built from.  Bytes that only arise by decoding a
\* %-escape are the quote, the star and two bytes above 0x7f.
HiBytes == {"<a2>", "<aa>"}

IsHex(c) == c \in {"0", "2", "3", "5", "a", "b", "c", "d", "e", "A", "F"}

\* unhex of the first digit of an escape, as far as "< 8" needs it.
HexVal(c) ==
    CASE c = "0" -> 0
      [] c = "2" -> 2
      [] c = "3" -> 3
      [] c = "5" -> 5
      [] OTHER -> 10

\* The byte "%xy" decodes to.
Unhex2(x, y) ==
    CASE x = "2" /\ y = "2" -> "\""
      [] x = "2" /\ y = "a" -> "*"
      [] x = "a" /\ y = "2" -> "<a2>"
      [] x = "a" /\ y = "a" -> "<aa>"
      [] OTHER -> "<byte>"

\* shouldEscape(c, mode) for mode "path", "fragment" and "host".
shouldEscape(c, mode) ==
    IF c \in HiBytes \cup {" ", "%", "#", "<byte>"} THEN TRUE
    ELSE IF c \in {"\"", "*"}
    THEN IF mode = "host" THEN FALSE
         ELSE IF mode = "fragment" THEN c = "\""
         ELSE TRUE
    ELSE IF c \in {"/", "?", ":"}
    THEN IF mode = "path" THEN c = "?"
         ELSE IF mode = "fragment" THEN FALSE
         ELSE c # ":"
    ELSE FALSE

\* "%XX" with upper-case hex digits.
EscapeOf(c) ==
    CASE c = " " -> <<"%", "2", "0">>
      [] c = "\"" -> <<"%", "2", "2">>
      [] c = "*" -> <<"%", "2", "A">>
      [] c = "#" -> <<"%", "2", "3">>
      [] c = "%" -> <<"%", "2", "5">>
      [] c = "?" -> <<"%", "3", "F">>
      [] c = "/" -> <<"%", "2", "F">>
      [] c = "<a2>" -> <<"%", "A", "2">>
      [] c = "<aa>" -> <<"%", "A", "A">>
      [] OTHER -> <<"%", "X", "X">>

\* escape(s, mode), from index i on.
RECURSIVE escapeFrom(_, _, _)
escapeFrom(s, i, mode) ==
    IF i > Len(s) THEN <<>>
    ELSE (IF shouldEscape(s[i], mode) THEN EscapeOf(s[i]) ELSE <<s[i]>>)
         \o escapeFrom(s, i + 1, mode)

escape(s, mode) == escapeFrom(s, 1, mode)

\* The first pass of unescape(s, mode): every % starts a two-digit escape; in
\* a host, an escape may only encode a byte >= 0x80 (or be %25), and no plain
\* character may be one that must be escaped.
ValidEscapes(s, mode) ==
    \A i \in 1..Len(s) :
        IF s[i] = "%"
        THEN /\ i + 2 <= Len(s)
             /\ IsHex(s[i + 1])
             /\ IsHex(s[i + 2])
             /\ (mode = "host" =>
                    ~(HexVal(s[i + 1]) < 8 /\ <<s[i + 1], s[i + 2]>> # <<"2", "5">>))
        ELSE mode = "host" => ~shouldEscape(s[i], "host")

\* The second pass of unescape, on a text that passed the first, from index
\* i on.
RECURSIVE unescapeFrom(_, _)
unescapeFrom(s, i) ==
    IF i > Len(s) THEN <<>>
    ELSE IF s[i] = "%"
    THEN <<Unhex2(s[i + 1], s[i + 2])>> \o unescapeFrom(s, i + 3)
    ELSE <<s[i]>> \o unescapeFrom(s, i + 1)

unescape(s) == unescapeFrom(s, 1)

\* validEncoded(s, mode): s may stand as it is in the printed URL.
validEncoded(s, mode) ==
    \A i \in 1..Len(s) : s[i] \in {"*", ":", "%"} \/ ~shouldEscape(s[i], mode)

NoURL ==
    [Scheme |-> <<>>, Host |-> <<>>, Path |-> <<>>, RawPath |-> <<>>,
     ForceQuery |-> FALSE, RawQuery |-> <<>>, Fragment |-> <<>>,
     RawFragment |-> <<>>]

\* url.Parse(rawURL) for a rawURL that begins with http:// or https://: the
\* fragment is cut off at the first #, the query at the first ? (a lone
\* trailing ? forces an empty query), the authority runs from // to the next
\* /, and host, path and fragment are unescaped.
Parse(rawURL) ==
    LET h == IndexOf(rawURL, "#")
        u == IF h = 0 THEN rawURL ELSE SubSeq(rawURL, 1, h - 1)
        frag == IF h = 0 THEN <<>> ELSE SubSeq(rawURL, h + 1, Len(rawURL))
        colon == IndexOf(u, ":")
        scheme == SubSeq(u, 1, colon - 1)
        rest0 == SubSeq(u, colon + 1, Len(u))
        force == HasSuffix(rest0, <<"?">>) /\ Count(rest0, "?") = 1
        q == IndexOf(rest0, "?")
        rest1 == IF force THEN SubSeq(rest0, 1, Len(rest0) - 1)
                 ELSE IF q = 0 THEN rest0
                 ELSE SubSeq(rest0, 1, q - 1)
        query == IF force \/ q = 0 THEN <<>> ELSE SubSeq(rest0, q + 1, Len(rest0))
        auth0 == SubSeq(rest1, 3, Len(rest1))
        sl == IndexOf(auth0, "/")
        host == IF sl = 0 THEN auth0 ELSE SubSeq(auth0, 1, sl - 1)
        p == IF sl = 0 THEN <<>> ELSE SubSeq(auth0, sl, Len(auth0))
    IN  IF ~ValidEscapes(host, "host") \/ ~ValidEscapes(p, "path")
           \/ ~ValidEscapes(frag, "fragment")
        THEN [err |-> "url.Error", url |-> NoURL]
        ELSE [err |-> "",
              url |-> [Scheme |-> scheme,
                       Host |-> unescape(host),
                       Path |-> unescape(p),
                       RawPath |-> IF escape(unescape(p), "path") = p
                                   THEN <<>> ELSE p,
                       ForceQuery |-> force,
                       RawQuery |-> query,
                       Fragment |-> unescape(frag),
                       RawFragment |-> IF escape(unescape(frag), "fragment") = frag
                                       THEN <<>> ELSE frag]]

\* URL.EscapedPath
EscapedPath(u) ==
    IF u.RawPath # <<>> /\ validEncoded(u.RawPath, "path")
    THEN u.RawPath
    ELSE escape(u.Path, "path")

\* URL.EscapedFragment
EscapedFragment(u) ==
    IF u.RawFragment # <<>> /\ validEncoded(u.RawFragment, "fragment")
    THEN u.RawFragment
    ELSE escape(u.Fragment, "fragment")

\* URL.String
String(u) ==
    u.Scheme \o <<":">>
    \o (IF u.Host # <<>> \/ u.Path # <<>> THEN <<"/", "/">> ELSE <<>>)
    \o escape(u.Host, "host")
    \o EscapedPath(u)
    \o (IF u.ForceQuery \/ u.RawQuery # <<>> THEN <<"?">> \o u.RawQuery ELSE <<>>)
    \o (IF u.Fragment # <<>> THEN <<"#">> \o EscapedFragment(u) ELSE <<>>)

\* A resolution that puts the Endpoint before every path.
ResolvePathAlways(path) == Endpoint \o <<"/">> \o path

\* Lines 62-64: a path without an http:// or https:// prefix is put behind
\* the Endpoint and a slash.
ResolvePath(path) ==
    IF ~HasPrefix(path, HttpsPrefix) /\ ~HasPrefix(path, HttpPrefix)
    THEN Endpoint \o <<"/">> \o path
    ELSE path

\* The paths callers pass: Paths in the specification of one call, every
\* path of up to MaxPathLen characters behind no prefix, http:// or https://
\* in the specification of the request builder, ConcPath(i) for call i of the
\* concurrent specification.
Paths ==
    { <<"a">>, <<"a", " ", "a">>, <<"%">>, HttpPrefix \o <<"a", "/", "a">> }

PathChars == {"a", "2", " ", "#", "?", "%", "/"}

SeqsUpTo(S, n) == UNION {[1..k -> S] : k \in 0..n}

URLPaths ==
    {pre \o suf : pre \in {<<>>, HttpPrefix, HttpsPrefix},
                  suf \in SeqsUpTo(PathChars, MaxPathLen)}

ConcPath(i) == IF i % 2 = 1 THEN <<"a">> ELSE <<"2">>

\* Lines 62-65, path = fmt.Sprintf(...); uri, err := url.Parse(path),
\* worked out once for every path a caller passes.
ParsedPath == [p \in Paths \cup URLPaths |-> Parse(ResolvePath(p))]

\* ------------------------------------------------------------- the program

VARIABLES
    client,  \* the shared *Client: AccessKey, HTTPClient, DebugLog
    calls,   \* per call of Request: its arguments, locals and position
    log      \* the lines written to client.DebugLog, in order

vars == <<client, calls, log>>

\* Error values.  text holds the response body a DecodeError quotes, cause
\* the error it wraps, items the Errors of an ErrorResponse.
Err(kind) == [kind |-> kind, text |-> <<>>, cause |-> "", items |-> <<>>]

NilErr == Err("nil")

\* var ErrUnexpectedResponse = errors.New("The MessageBird API is currently
\* unavailable")
ErrUnexpectedResponse == Err("ErrUnexpectedResponse")

\* fmt.Errorf("could not decode response JSON, %s: %v", string(responseBody), err)
DecodeError(body, cause) ==
    [kind |-> "DecodeError", text |-> body, cause |-> cause, items |-> <<>>]

\* The error json.Unmarshal returned, handed on as it is.
JSONError(e) == Err(e)

\* return errorResponse
ErrorResponse(items) ==
    [kind |-> "ErrorResponse", text |-> <<>>, cause |-> "", items |-> items]

NoRequest ==
    [Method |-> "", URL |-> <<>>, Body |-> <<>>,
     Header |-> [ContentType |-> "", Accept |-> "", Authorization |-> <<>>,
                 UserAgent |-> ""]]

\* A call that has not started.  v is the object the caller's result pointer
\* refers to; v0, served and hist are history: the sink as the call found
\* it, the body the transport put on the stream, and the steps taken.
IdleCall ==
    [pc |-> "idle", v |-> NilSink, v0 |-> NilSink, method |-> "",
     path |-> <<>>, data |-> NoData, uri |-> NoURL, jsonEncoded |-> <<>>,
     request |-> NoRequest, StatusCode |-> 0, stream |-> <<>>,
     served |-> <<>>, responseBody |-> <<>>, err |-> NilErr, closed |-> 0,
     hist |-> <<>>]

\* net/http validMethod, after NewRequest has replaced "" by "GET": the one
\* method here that holds a character outside the token characters.
validMethod(m) == m # "BAD METHOD"

\* The statement `return e` before the response exists.
Return(c, e, step) ==
    [c EXCEPT !.pc = "done", !.err = e, !.hist = Append(@, step)]

\* A return that forgets the deferred Close.
ReturnSkipsClose(c, e, step) == Return(c, e, step)

\* The statement `return e` once `defer response.Body.Close()` is registered:
\* the result is set and the deferred call runs before Request returns.
ReturnDeferred(c, e, step) ==
    [c EXCEPT !.pc = "close", !.err = e, !.hist = Append(@, step)]

\* Classification that sends status 500 down the error-envelope path.
ClassifyNo500(StatusCode, responseBody, v) ==
    IF StatusCode = 200 \/ StatusCode = 201
    THEN LET r == UnmarshalSink(responseBody, v)
         IN  IF r.err # ""
             THEN [err |-> DecodeError(responseBody, r.err), v |-> r.v]
             ELSE [err |-> NilErr, v |-> r.v]
    ELSE LET r == UnmarshalErrorResponse(responseBody)
         IN  IF r.err # ""
             THEN [err |-> JSONError(r.err), v |-> v]
             ELSE [err |-> ErrorResponse(r.val), v |-> v]

\* Classification that takes only status 200 for a success.
ClassifyOnly200(StatusCode, responseBody, v) ==
    IF StatusCode = 500
    THEN [err |-> ErrUnexpectedResponse, v |-> v]
    ELSE IF StatusCode = 200
    THEN LET r == UnmarshalSink(responseBody, v)
         IN  IF r.err # ""
             THEN [err |-> DecodeError(responseBody, r.err), v |-> r.v]
             ELSE [err |-> NilErr, v |-> r.v]
    ELSE LET r == UnmarshalErrorResponse(responseBody)
         IN  IF r.err # ""
             THEN [err |-> JSONError(r.err), v |-> v]
             ELSE [err |-> ErrorResponse(r.val), v |-> v]

\* Classification that wraps a malformed error envelope like a malformed
\* success body.
ClassifyWrapsBoth(StatusCode, responseBody, v) ==
    IF StatusCode = 500
    THEN [err |-> ErrUnexpectedResponse, v |-> v]
    ELSE IF StatusCode = 200 \/ StatusCode = 201
    THEN LET r == UnmarshalSink(responseBody, v)
         IN  IF r.err # ""
             THEN [err |-> DecodeError(responseBody, r.err), v |-> r.v]
             ELSE [err |-> NilErr, v |-> r.v]
    ELSE LET r == UnmarshalErrorResponse(responseBody)
         IN  IF r.err # ""
             THEN [err |-> DecodeError(responseBody, r.err), v |-> v]
             ELSE [err |-> ErrorResponse(r.val), v |-> v]

\* Lines 112-132: the outcome for a status code and a fully read body: the
\* error returned and the sink as json.Unmarshal leaves it.
Classify(StatusCode, responseBody, v) ==
    IF StatusCode = 500
    THEN [err |-> ErrUnexpectedResponse, v |-> v]
    ELSE IF StatusCode = 200 \/ StatusCode = 201
    THEN LET r == UnmarshalSink(responseBody, v)
         IN  IF r.err # ""
             THEN [err |-> DecodeError(responseBody, r.err), v |-> r.v]
             ELSE [err |-> NilErr, v |-> r.v]
    ELSE LET r == UnmarshalErrorResponse(responseBody)
         IN  IF r.err # ""
             THEN [err |-> JSONError(r.err), v |-> v]
             ELSE [err |-> ErrorResponse(r.val), v |-> v]

\* Response bodies the transport may serve.
EnvelopeBody ==
    <<"{", "\"errors\"", ":", "[", "{", "\"code\"", ":", "9", ",",
      "\"description\"", ":", "\"is invalid\"", ",", "\"parameter\"", ":",
      "\"originator\"", "}", "]", "}">>

Bodies ==
    { <<>>,
      <<"not", "json">>,
      <<"null">>,
      <<"{", "}">>,
      <<"[", "]">>,
      <<"{", "\"payment\"", ":", "\"prepaid\"", ",", "\"amount\"", ":", "9", "}">>,
      <<"{", "\"amount\"", ":", "\"prepaid\"", ",", "\"payment\"", ":",
        "\"prepaid\"", "}">>,
      <<"{", "\"payment\"", ":", "\"prepaid\"", ",", "\"amount\"", ":">>,
      EnvelopeBody,
      <<"{", "\"errors\"", ":", "[", "]", "}">>,
      <<"{", "\"errors\"", ":", "[", "{", "\"code\"", ":", "\"is invalid\"",
        "}", "]", "}">> }

Statuses == {200, 201, 204, 422, 500, 503}

\* A sink that already holds values from an earlier use.
OldSink == [kind |-> "ptr", payment |-> "originator", amount |-> 9]

Sinks == {ZeroSink, OldSink, NilSink}

ConcResponses ==
    { [StatusCode |-> 200,
       body |-> <<"{", "\"amount\"", ":", "9", "}">>],
      [StatusCode |-> 422,
       body |-> <<"{", "\"errors\"", ":", "[", "{", "\"code\"", ":", "9", "}",
                  "]", "}">>],
      [StatusCode |-> 500, body |-> <<>>] }

\* Lines 112-132 worked out once for every response the transport serves and
\* every sink a caller passes.
Classified ==
    [sc \in Statuses, b \in Bodies \cup {r.body : r \in ConcResponses}, v \in Sinks
        |-> Classify(sc, b, v)]

\* The caller invokes c.Request(v, method, path, data).
Call(i, v, method, path, data) ==
    /\ calls[i].pc = "idle"
    /\ calls' = [calls EXCEPT ![i] =
                    [@ EXCEPT !.pc = "resolve", !.v = v, !.v0 = v,
                              !.method = method, !.path = path, !.data = data]]
    /\ UNCHANGED <<client, log>>

\* Lines 62-68.
ResolveURL(i) ==
    /\ calls[i].pc = "resolve"
    /\ LET r == ParsedPath[calls[i].path]
       IN  calls' = [calls EXCEPT ![i] =
                IF r.err # "" THEN Return(@, Err(r.err), "urlerr")
                ELSE [@ EXCEPT !.pc = "marshal", !.uri = r.url,
                               !.hist = Append(@, "url")]]
    /\ UNCHANGED <<client, log>>

\* Lines 70-76.
MarshalData(i) ==
    /\ calls[i].pc = "marshal"
    /\ LET c == calls[i]
           r == Marshal(c.data)
       IN  calls' = [calls EXCEPT ![i] =
                IF c.data.kind = "nil"
                THEN [@ EXCEPT !.pc = "newreq", !.hist = Append(@, "marshal")]
                ELSE IF r.err # "" THEN Return(@, Err(r.err), "marshalerr")
                ELSE [@ EXCEPT !.pc = "newreq", !.jsonEncoded = r.text,
                               !.hist = Append(@, "marshal")]]
    /\ UNCHANGED <<client, log>>

\* Lines 78-86.  http.NewRequest parses uri.String() again and keeps it.
NewRequest(i) ==
    /\ calls[i].pc = "newreq"
    /\ LET c == calls[i]
           method == IF c.method = "" THEN "GET" ELSE c.method
       IN  calls' = [calls EXCEPT ![i] =
                IF ~validMethod(method)
                THEN Return(@, Err("net/http: invalid method"), "newreqerr")
                ELSE [@ EXCEPT
                        !.pc = "logreq",
                        !.request =
                            [Method |-> method,
                             URL |-> String(c.uri),
                             Body |-> c.jsonEncoded,
                             Header |->
                                [ContentType |-> "application/json",
                                 Accept |-> "application/json",
                                 Authorization |-> <<"AccessKey ", client.AccessKey>>,
                                 UserAgent |-> "MessageBird/ApiClient/4.2.1 Go"]],
                        !.hist = Append(@, "built")]]
    /\ UNCHANGED <<client, log>>

\* c.DebugLog.Printf("HTTP REQUEST: %s %s %s", ...): by names the call that
\* wrote the line (history, not part of the text).
RequestLine(i, c) ==
    [by |-> i, what |-> "HTTP REQUEST", method |-> c.method,
     url |-> String(c.uri),
     body |-> IF c.data.kind # "nil" THEN c.jsonEncoded ELSE <<>>]

\* c.DebugLog.Printf("HTTP RESPONSE: %s", string(responseBody))
ResponseLine(i, c) ==
    [by |-> i, what |-> "HTTP RESPONSE", method |-> "", url |-> <<>>,
     body |-> c.responseBody]

\* Lines 88-94.
LogRequest(i) ==
    /\ calls[i].pc = "logreq"
    /\ log' = IF client.DebugLog THEN Append(log, RequestLine(i, calls[i])) ELSE log
    /\ calls' = [calls EXCEPT ![i] =
                    [@ EXCEPT !.pc = "do",
                              !.hist = IF client.DebugLog
                                       THEN Append(@, "logreq") ELSE @]]
    /\ UNCHANGED client

\* Lines 96-99, the transport fails: no response, nothing to close.
DoFails(i) ==
    /\ calls[i].pc = "do"
    /\ calls' = [calls EXCEPT ![i] = Return(@, Err("TransportError"), "doerr")]
    /\ UNCHANGED <<client, log>>

\* Lines 96-101, the transport answers with a status code and a body
\* stream; the deferred Close is registered.
DoResponds(i, StatusCode, body) ==
    /\ calls[i].pc = "do"
    /\ calls' = [calls EXCEPT ![i] =
                    [@ EXCEPT !.pc = "read", !.StatusCode = StatusCode,
                              !.stream = body, !.served = body,
                              !.hist = Append(@, "do")]]
    /\ UNCHANGED <<client, log>>

Min(a, b) == IF a < b THEN a ELSE b

\* Line 103, one round of ioutil.ReadAll's loop: the stream delivers its
\* next lexemes, or reports the end of the body.
ReadChunk(i) ==
    /\ calls[i].pc = "read"
    /\ LET c == calls[i]
           n == Min(ChunkLen, Len(c.stream))
       IN  calls' = [calls EXCEPT ![i] =
                IF c.stream = <<>>
                THEN [@ EXCEPT !.pc = "logresp", !.hist = Append(@, "read")]
                ELSE [@ EXCEPT
                        !.responseBody = @ \o SubSeq(c.stream, 1, n),
                        !.stream = SubSeq(c.stream, n + 1, Len(c.stream))]]
    /\ UNCHANGED <<client, log>>

\* Lines 103-106, a round of the loop fails: ReadAll returns the error.
ReadFails(i) ==
    /\ calls[i].pc = "read"
    /\ calls' = [calls EXCEPT ![i] = ReturnDeferred(@, Err("ReadError"), "readerr")]
    /\ UNCHANGED <<client, log>>

\* The response line written only after the status 500 check.
LogResponseAfter500(i) ==
    /\ calls[i].pc = "logresp"
    /\ log' = IF client.DebugLog /\ calls[i].StatusCode # 500
              THEN Append(log, [by |-> i, what |-> "HTTP RESPONSE", method |-> "",
                                url |-> <<>>, body |-> calls[i].responseBody])
              ELSE log
    /\ calls' = [calls EXCEPT ![i] =
                    [@ EXCEPT !.pc = "classify",
                              !.hist = IF client.DebugLog /\ calls[i].StatusCode # 500
                                       THEN Append(@, "logresp") ELSE @]]
    /\ UNCHANGED client

\* Lines 108-110.
LogResponse(i) ==
    /\ calls[i].pc = "logresp"
    /\ log' = IF client.DebugLog THEN Append(log, ResponseLine(i, calls[i])) ELSE log
    /\ calls' = [calls EXCEPT ![i] =
                    [@ EXCEPT !.pc = "classify",
                              !.hist = IF client.DebugLog
                                       THEN Append(@, "logresp") ELSE @]]
    /\ UNCHANGED client

\* Classification that reads the body from one buffer shared by all calls
\* (the first call's), as if the buffer were kept on the Client.
ClassifyResponseShared(i) ==
    /\ calls[i].pc = "classify"
    /\ LET c == calls[i]
           r == Classified[c.StatusCode, calls[1].served, c.v]
       IN  calls' = [calls EXCEPT ![i] =
                ReturnDeferred([c EXCEPT !.v = r.v], r.err, "classify")]
    /\ UNCHANGED <<client, log>>

\* Lines 112-132.
ClassifyResponse(i) ==
    /\ calls[i].pc = "classify"
    /\ LET c == calls[i]
           r == Classified[c.StatusCode, c.responseBody, c.v]
       IN  calls' = [calls EXCEPT ![i] =
                ReturnDeferred([c EXCEPT !.v = r.v], r.err, "classify")]
    /\ UNCHANGED <<client, log>>

\* Line 101: the deferred response.Body.Close() runs as Request returns.
CloseBody(i) ==
    /\ calls[i].pc = "close"
    /\ calls' = [calls EXCEPT ![i] =
                    [@ EXCEPT !.pc = "done", !.closed = @ + 1,
                              !.hist = Append(@, "close")]]
    /\ UNCHANGED <<client, log>>

\* ---------------------------------------------------------- specifications

\* New(accessKey), with or without a DebugLog set by the caller.
Clients == [AccessKey : {"test-key"}, HTTPClient : {"transport"}, DebugLog : BOOLEAN]

Methods == {"POST", "", "BAD METHOD"}

Datas == {NoData, StructData, ChanData}

\* One call of Request at a time.
Init ==
    /\ client \in Clients
    /\ calls = [i \in {1} |-> IdleCall]
    /\ log = <<>>

Next ==
    \E i \in {1} :
        \/ \E v \in Sinks, m \in Methods, p \in Paths, d \in Datas :
                Call(i, v, m, p, d)
        \/ ResolveURL(i)
        \/ MarshalData(i)
        \/ NewRequest(i)
        \/ LogRequest(i)
        \/ DoFails(i)
        \/ \E sc \in Statuses, b \in Bodies : DoResponds(i, sc, b)
        \/ ReadChunk(i)
        \/ ReadFails(i)
        \/ LogResponse(i)
        \/ ClassifyResponse(i)
        \/ CloseBody(i)

Spec == Init /\ [][Next]_vars

\* The request builder alone, over URLPaths.
InitURL ==
    /\ client = [AccessKey |-> "test-key", HTTPClient |-> "transport",
                 DebugLog |-> FALSE]
    /\ calls = [i \in {1} |-> IdleCall]
    /\ log = <<>>

NextURL ==
    \E i \in {1} :
        \/ \E p \in URLPaths : Call(i, ZeroSink, "POST", p, NoData)
        \/ ResolveURL(i)
        \/ MarshalData(i)
        \/ NewRequest(i)

SpecURL == InitURL /\ [][NextURL]_vars

\* The payload of call i of the concurrent specification.
ConcData(i) == IF i % 2 = 1 THEN NoData ELSE StructData

\* NumCalls goroutines share the Client.  Each call has its own sink, its
\* own payload and its own path; the transport answers each on its own, or
\* fails before answering (a body, once begun, arrives whole).

InitConc ==
    /\ client \in Clients
    /\ calls = [i \in 1..NumCalls |-> IdleCall]
    /\ log = <<>>

StepConc(i) ==
    \/ Call(i, ZeroSink, "POST", ConcPath(i), ConcData(i))
    \/ ResolveURL(i)
    \/ MarshalData(i)
    \/ NewRequest(i)
    \/ LogRequest(i)
    \/ DoFails(i)
    \/ \E r \in ConcResponses : DoResponds(i, r.StatusCode, r.body)
    \/ ReadChunk(i)
    \/ LogResponse(i)
    \/ ClassifyResponse(i)
    \/ CloseBody(i)

NextConc == \E i \in 1..NumCalls : StepConc(i)

\* Every goroutine is scheduled, and the transport answers or fails within
\* its timeout: a call that can take a step eventually takes one.
SpecConc ==
    /\ InitConc
    /\ [][NextConc]_vars
    /\ \A i \in 1..NumCalls : WF_vars(StepConc(i))

\* ------------------------------------------------------------------ claims

Done(c) == c.pc = "done"

\* The step was taken by the call.
Has(c, step) == \E k \in 1..Len(c.hist) : c.hist[k] = step

\* The position of a step in the call's history, 0 when it was not taken.
Pos(c, step) ==
    IF Has(c, step) THEN CHOOSE k \in 1..Len(c.hist) : c.hist[k] = step ELSE 0

\* The body was read to its end.
BodyRead(c) == Has(c, "read")

\* What the call must end with, from its arguments and from what the
\* transport did alone (client.DebugLog is not consulted).
Outcome(c) ==
    IF Has(c, "urlerr") THEN [err |-> Err("url.Error"), v |-> c.v0]
    ELSE IF Has(c, "marshalerr") THEN [err |-> Err("UnsupportedTypeError"), v |-> c.v0]
    ELSE IF Has(c, "newreqerr") THEN [err |-> Err("net/http: invalid method"), v |-> c.v0]
    ELSE IF Has(c, "doerr") THEN [err |-> Err("TransportError"), v |-> c.v0]
    ELSE IF Has(c, "readerr") THEN [err |-> Err("ReadError"), v |-> c.v0]
    ELSE Classify(c.StatusCode, c.served, c.v0)

\* C1 (as claimed): whenever a call of Request has ended in an error, the
\* caller's result sink holds exactly the value it held before the call.
C1_SinkUntouchedOnError ==
    \A i \in DOMAIN calls :
        (Done(calls[i]) /\ calls[i].err # NilErr) => calls[i].v = calls[i].v0

\* C2 (as claimed): a finished call has exactly one outcome: either no error
\* and the sink populated from the response body of a 200/201 response, or
\* an error and no result at all (the sink as it was).
C2_ExactlyOneOutcome ==
    \A i \in DOMAIN calls :
        LET c == calls[i]
        IN  Done(c) =>
                \/ /\ c.err = NilErr
                   /\ BodyRead(c)
                   /\ c.StatusCode \in {200, 201}
                   /\ c.v = UnmarshalSink(c.served, c.v0).v
                \/ /\ c.err # NilErr
                   /\ c.v = c.v0

\* C3: a call that read the body of a status 500 response ends with the
\* fixed ErrUnexpectedResponse, whatever the body, and the sink is as it was.
C3_Status500Sentinel ==
    \A i \in DOMAIN calls :
        LET c == calls[i]
        IN  (Done(c) /\ BodyRead(c) /\ c.StatusCode = 500) =>
                /\ c.err = ErrUnexpectedResponse
                /\ c.err.text = <<>>
                /\ c.err.items = <<>>
                /\ c.v = c.v0

C3_Witness ==
    \E i \in DOMAIN calls :
        /\ Done(calls[i])
        /\ BodyRead(calls[i])
        /\ calls[i].StatusCode = 500
        /\ calls[i].served = EnvelopeBody
        /\ calls[i].v0 = OldSink

\* C4: a call that read the body of a status 200 or 201 response ends
\* without error and with the sink decoded from the body when the body
\* deserializes into the sink's shape, and otherwise with a DecodeError that
\* holds the raw body and the parse failure; a body that is the encoding of
\* a value decodes to that value.
C4_SuccessDecode ==
    \A i \in DOMAIN calls :
        LET c == calls[i]
            r == UnmarshalSink(c.served, c.v0)
        IN  (Done(c) /\ BodyRead(c) /\ c.StatusCode \in {200, 201}) =>
                /\ r.err = "" =>
                        /\ c.err = NilErr
                        /\ c.v = r.v
                /\ r.err # "" =>
                        /\ c.err.kind = "DecodeError"
                        /\ c.err.text = c.served
                        /\ c.err.cause = r.err
                        /\ c.err.cause \in {"SyntaxError", "UnmarshalTypeError"}
                /\ c.err.kind \in {"nil", "DecodeError"}
                /\ (c.served = Marshal(StructData).text /\ c.v0.kind = "ptr") =>
                        /\ c.err = NilErr
                        /\ c.v.payment = StructData.payment
                        /\ c.v.amount = StructData.amount
                /\ c.served = <<"not", "json">> =>
                        /\ c.err.kind = "DecodeError"
                        /\ c.err.text = <<"not", "json">>

C4_Witness ==
    \E i \in DOMAIN calls :
        /\ Done(calls[i])
        /\ BodyRead(calls[i])
        /\ calls[i].StatusCode = 201
        /\ calls[i].served = Marshal(StructData).text
        /\ calls[i].v0 = OldSink
        /\ calls[i].v.amount = 9
        /\ calls[i].v.payment = "prepaid"

\* C5: a call that read the body of a response whose status is none of 200,
\* 201, 500 never succeeds and never writes the sink: it ends with the
\* structured error decoded from the body when the body parses as the error
\* envelope, and otherwise with the parse error itself, not wrapped in a
\* DecodeError.
C5_OtherStatus ==
    \A i \in DOMAIN calls :
        LET c == calls[i]
            r == UnmarshalErrorResponse(c.served)
        IN  (Done(c) /\ BodyRead(c) /\ c.StatusCode \notin {200, 201, 500}) =>
                /\ c.err # NilErr
                /\ c.v = c.v0
                /\ r.err = "" =>
                        /\ c.err.kind = "ErrorResponse"
                        /\ c.err.items = r.val
                /\ r.err # "" =>
                        /\ c.err.kind = r.err
                        /\ c.err.kind \in {"SyntaxError", "UnmarshalTypeError"}
                        /\ c.err.text = <<>>
                /\ c.served = EnvelopeBody =>
                        c.err.items = <<[code |-> 9, description |-> "is invalid",
                                         parameter |-> "originator"]>>
                /\ c.served = <<"not", "json">> => c.err.kind = "SyntaxError"

C5_Witness ==
    \E i \in DOMAIN calls :
        /\ Done(calls[i])
        /\ BodyRead(calls[i])
        /\ calls[i].StatusCode = 422
        /\ calls[i].served = EnvelopeBody
        /\ calls[i].err.kind = "ErrorResponse"

\* C6 (as claimed): a call that ends with a structured API error carries at
\* least one error item.
C6_StructuredErrorHasItems ==
    \A i \in DOMAIN calls :
        (Done(calls[i]) /\ calls[i].err.kind = "ErrorResponse") =>
            Len(calls[i].err.items) >= 1

\* The claim's own reading of a path: absolute when it begins with http:// or
\* https://.
IsAbsolute(path) == HasPrefix(path, HttpPrefix) \/ HasPrefix(path, HttpsPrefix)

\* Only unreserved characters and slashes.
Plain(s) == \A k \in 1..Len(s) : s[k] \in {"a", "2", "/"}

\* The path behind its http:// or https:// prefix.
AfterScheme(path) ==
    IF HasPrefix(path, HttpsPrefix) THEN SubSeq(path, Len(HttpsPrefix) + 1, Len(path))
    ELSE SubSeq(path, Len(HttpPrefix) + 1, Len(path))

OwnOutcome(i) ==
    LET c == calls[i]
    IN  /\ c.pc # "idle" => (c.path = ConcPath(i) /\ c.data = ConcData(i))
        /\ Has(c, "built") =>
                /\ c.request.URL = Endpoint \o <<"/">> \o ConcPath(i)
                /\ c.request.Body = (IF ConcData(i).kind = "nil" THEN <<>>
                                     ELSE Marshal(ConcData(i)).text)
        /\ Done(c) =>
                /\ c.err = Outcome(c).err
                /\ c.v = Outcome(c).v
                /\ BodyRead(c) => c.responseBody = c.served

AllDone == \A i \in DOMAIN calls : Done(calls[i])

C9_BodyClosedOnce ==
    \A i \in DOMAIN calls :
        LET c == calls[i]
        IN  /\ c.closed <= 1
            /\ Done(c) => c.closed = (IF Has(c, "do") THEN 1 ELSE 0)
            /\ c.closed = 1 =>
                    /\ Done(c)
                    /\ c.hist[Len(c.hist)] = "close"
                    /\ \/ BodyRead(c) /\ c.stream = <<>> /\ c.responseBody = c.served
                       \/ Has(c, "readerr")
            /\ Has(c, "doerr") => c.closed = 0 /\ ~Has(c, "close")

C9_Witness ==
    \E i \in DOMAIN calls :
        /\ Done(calls[i])
        /\ calls[i].closed = 1
        /\ calls[i].err.kind = "UnmarshalTypeError"

\* The lines of the log written by call i.
LinesOf(i) == SelectSeq(log, LAMBDA l : l.by = i)

\* C10: with a DebugLog a call writes one request line (method, URL, and the
\* serialized payload if there is one) after the request is built and before
\* the transport is invoked, and one response line (the raw body) after the
\* body is read and before classification, for every status code; it writes
\* no request line when no request was built and no response line when the
\* transport or the read failed.  Without a DebugLog nothing is written, and
\* the outcome does not depend on the DebugLog.
C10_DebugLines ==
    \A i \in DOMAIN calls :
        LET c == calls[i]
            lines == LinesOf(i)
            sentReq == Has(c, "built") /\ c.pc # "logreq"
            gotBody == BodyRead(c) /\ c.pc # "logresp"
        IN  /\ ~client.DebugLog => log = <<>>
            /\ client.DebugLog =>
                    /\ Len(lines) = (IF sentReq THEN 1 ELSE 0)
                                    + (IF gotBody THEN 1 ELSE 0)
                    /\ sentReq =>
                            /\ lines[1].what = "HTTP REQUEST"
                            /\ lines[1].method = c.method
                            /\ lines[1].url = c.request.URL
                            /\ lines[1].body = (IF c.data.kind = "nil" THEN <<>>
                                                ELSE c.request.Body)
                            /\ Pos(c, "logreq") = Pos(c, "built") + 1
                            /\ Has(c, "do") => Pos(c, "do") = Pos(c, "logreq") + 1
                            /\ Has(c, "doerr") => Pos(c, "doerr") = Pos(c, "logreq") + 1
                    /\ gotBody =>
                            /\ lines[2].what = "HTTP RESPONSE"
                            /\ lines[2].body = c.served
                            /\ Pos(c, "logresp") = Pos(c, "read") + 1
                            /\ Has(c, "classify") =>
                                    Pos(c, "classify") = Pos(c, "logresp") + 1
            /\ Done(c) =>
                    /\ c.err = Outcome(c).err
                    /\ c.v = Outcome(c).v

C10_Witness ==
    \E i \in DOMAIN calls :
        /\ client.DebugLog
        /\ Done(calls[i])
        /\ calls[i].StatusCode = 500
        /\ calls[i].data = StructData
        /\ Len(log) = 2
        /\ log[1].body = Marshal(StructData).text

====
